---- MODULE Spec2Model ----
(***************************************************************************)
(* A model of the keyspace and CDC resources of terraform-provider-astra:  *)
(* the retry loop of resourceKeyspaceCreate / resourceKeyspaceDelete, the  *)
(* credential-refresh and convergence loops of resourceCDCCreate, the      *)
(* straight-line resourceKeyspaceRead / resourceCDCDelete /                *)
(* resourceCDCRead, the ctx the operations run under, keyspaceMutex        *)
(* shared by operations that run side by side, and the identity strings    *)
(* they write and parse.                                                   *)
(*                                                                         *)
(* Strings are sequences of one-character strings, so that fmt.Sprintf,    *)
(* strings.Split and strings.ToLower are computed and not assumed.         *)
(***************************************************************************)
EXTENDS Integers, Sequences, FiniteSets, TLC

VARIABLES
    op,             \* per operation: its inputs, its position and what it has done so far
    keyspaceMutex,  \* the holder of the package-level sync.Mutex, or "free"
    codec           \* the identity codec applied to one field tuple

vars == <<op, keyspaceMutex, codec>>

(***************************************************************************)
(* Bounds of the model.                                                    *)
(***************************************************************************)
\* attempts of the retry function one RetryContext call runs before its timeout is due
MaxAttempts == 4
\* convergence listings one CDC create is followed through
MaxListCalls == 10
\* entries of one CDC listing
MaxListLen == 2
\* characters of a generated keyspace name
MaxFieldLen == 2

Procs == {"p1", "p2"}

(***************************************************************************)
(* Strings.                                                                *)
(***************************************************************************)
Slash == <<"/">>
KeyspaceSep == <<"/", "k", "e", "y", "s", "p", "a", "c", "e", "/">>

\* strings.ToLower on the letters the model uses
LowerCase(c) ==
    CASE c = "A" -> "a"
      [] c = "B" -> "b"
      [] c = "D" -> "d"
      [] c = "K" -> "k"
      [] c = "S" -> "s"
      [] c = "T" -> "t"
      [] OTHER -> c

ToLower(s) == [i \in 1..Len(s) |-> LowerCase(s[i])]

\* whether sep occurs in s at position i
OccursAt(s, sep, i) ==
    /\ i + Len(sep) - 1 <= Len(s)
    /\ SubSeq(s, i, i + Len(sep) - 1) = sep

\* strings.Split(s, sep) for a non-empty sep: cut at each occurrence, left to right
RECURSIVE Split(_, _)
Split(s, sep) ==
    LET hits == {i \in 1..Len(s) : OccursAt(s, sep, i)}
    IN  IF hits = {}
        THEN <<s>>
        ELSE LET i == CHOOSE j \in hits : \A k \in hits : j <= k
             IN  <<SubSeq(s, 1, i - 1)>> \o Split(SubSeq(s, i + Len(sep), Len(s)), sep)

(***************************************************************************)
(* validators.go                                                           *)
(***************************************************************************)
AlphaNum == {"a", "b", "k", "s", "A", "B", "K", "S", "0", "1"}
\* the {0,48} of keyspaceNameRegex
MaxKeyspaceTail == 48

\* keyspaceNameRegex.MatchString: ^[a-zA-Z0-9][a-zA-Z0-9_]{0,48}$
validateKeyspace(name) ==
    /\ Len(name) >= 1
    /\ Len(name) <= 1 + MaxKeyspaceTail
    /\ name[1] \in AlphaNum
    /\ \A i \in 2..Len(name) : name[i] \in AlphaNum \cup {"_"}

(***************************************************************************)
(* The identity codec.                                                     *)
(***************************************************************************)
\* as setKeyspaceResourceData, with "/" for the separator
KeyspaceIDMisjoined(databaseID, keyspaceName) == databaseID \o Slash \o keyspaceName

\* the id setKeyspaceResourceData stores: fmt.Sprintf("%s/keyspace/%s", databaseID, keyspaceName)
setKeyspaceResourceData(databaseID, keyspaceName) ==
    databaseID \o KeyspaceSep \o keyspaceName

\* as parseKeyspaceID, lower-casing the id first the way parseCDCID does
parseKeyspaceIDLowered(id) ==
    LET idParts == Split(ToLower(id), KeyspaceSep)
    IN  IF Len(idParts) # 2
        THEN [err |-> TRUE, fields |-> <<>>]
        ELSE [err |-> FALSE, fields |-> <<idParts[1], idParts[2]>>]

\* parseKeyspaceID: the two parts, or an error
parseKeyspaceID(id) ==
    LET idParts == Split(id, KeyspaceSep)
    IN  IF Len(idParts) # 2
        THEN [err |-> TRUE, fields |-> <<>>]
        ELSE [err |-> FALSE, fields |-> <<idParts[1], idParts[2]>>]

\* the id resourceCDCCreate stores: fmt.Sprintf("%s/%s/%s/%s", databaseId, keyspace, table, tenantName)
CDCID(databaseId, keyspace, table, tenantName) ==
    databaseId \o Slash \o keyspace \o Slash \o table \o Slash \o tenantName

\* as parseCDCID, taking the first four parts of an id that has more
parseCDCIDFirstFour(id) ==
    LET idParts == Split(ToLower(id), Slash)
    IN  IF Len(idParts) < 4
        THEN [err |-> TRUE, fields |-> <<>>]
        ELSE [err |-> FALSE, fields |-> <<idParts[1], idParts[2], idParts[3], idParts[4]>>]

\* parseCDCID: the four parts of the lower-cased id, or an error
parseCDCID(id) ==
    LET idParts == Split(ToLower(id), Slash)
    IN  IF Len(idParts) # 4
        THEN [err |-> TRUE, fields |-> <<>>]
        ELSE [err |-> FALSE, fields |-> <<idParts[1], idParts[2], idParts[3], idParts[4]>>]

(***************************************************************************)
(* The remote control plane, as the responses the client can hand back.    *)
(***************************************************************************)
Statuses == {"ACTIVE", "INITIALIZING", "MAINTENANCE", "ERROR", "TERMINATED", "TERMINATING"}
TerminalStatuses == {"ERROR", "TERMINATED", "TERMINATING"}

NoResponse == [err |-> FALSE, code |-> 0, body |-> FALSE, status |-> "none"]

\* GetDatabaseWithResponse: a transport error, a response without JSON200, or a
\* 200 response whose JSON200 carries the database status
GetDatabaseResponses ==
    {[err |-> TRUE, code |-> 0, body |-> FALSE, status |-> "none"]}
    \cup {[err |-> FALSE, code |-> c, body |-> FALSE, status |-> "none"] : c \in {200, 204, 404, 500, 503}}
    \cup {[err |-> FALSE, code |-> 200, body |-> TRUE, status |-> s] : s \in Statuses}

NoMutation == [err |-> FALSE, code |-> 0]

\* AddKeyspaceWithResponse / DropKeyspaceWithResponse: a transport error or a status code
MutationResponses ==
    {[err |-> TRUE, code |-> 0]}
    \cup {[err |-> FALSE, code |-> c] : c \in {201, 302, 400, 401, 404, 409, 500}}

(***************************************************************************)
(* The classification of the two responses inside the retry function.      *)
(***************************************************************************)
\* as ClassifyStatus, with TERMINATING missing from the terminal case
ClassifyStatusNoTerminalCase(res) ==
    IF res.err THEN "Retry"
    ELSE IF res.code >= 500 THEN "Retry"
    ELSE IF res.code > 200 \/ ~res.body THEN "Fail"
    ELSE IF res.status \in {"ERROR", "TERMINATED"} THEN "Fail"
    ELSE IF res.status \in {"ACTIVE", "TERMINATING"} THEN "Proceed"
    ELSE "Retry"

\* as ClassifyStatus, with the check of the shape before the check for 5xx
ClassifyStatusShapeFirst(res) ==
    IF res.err THEN "Retry"
    ELSE IF res.code > 200 \/ ~res.body THEN "Fail"
    ELSE IF res.code >= 500 THEN "Retry"
    ELSE IF res.status \in TerminalStatuses THEN "Fail"
    ELSE IF res.status = "ACTIVE" THEN "Proceed"
    ELSE "Retry"

\* the retry function up to its switch on db.Status
ClassifyStatus(res) ==
    IF res.err THEN "Retry"
    ELSE IF res.code >= 500 THEN "Retry"
    ELSE IF res.code > 200 \/ ~res.body THEN "Fail"
    ELSE IF res.status \in {"ERROR", "TERMINATED", "TERMINATING"} THEN "Fail"
    ELSE IF res.status = "ACTIVE" THEN "Proceed"
    ELSE "Retry"

\* as ClassifyMutation, with every 4xx but 401 retried
ClassifyMutationRetryAll4xx(resp) ==
    IF resp.err THEN "Fail"
    ELSE IF resp.code = 409 THEN "Retry"
    ELSE IF resp.code = 401 THEN "Fail"
    ELSE IF resp.code >= 500 THEN "Fail"
    ELSE IF resp.code >= 400 THEN "Retry"
    ELSE "Accepted"

\* the if / else-if chain after AddKeyspaceWithResponse and DropKeyspaceWithResponse
ClassifyMutation(resp) ==
    IF resp.err THEN "Fail"
    ELSE IF resp.code = 409 THEN "Retry"
    ELSE IF resp.code = 401 THEN "Fail"
    ELSE IF resp.code >= 400 THEN "Fail"
    ELSE "Accepted"

(***************************************************************************)
(* One operation: its ResourceData and its local variables.                *)
(***************************************************************************)
KeyspaceKinds == {"KeyspaceCreate", "KeyspaceDelete"}
CDCKinds == {"CDCCreate", "CDCDelete", "CDCRead"}

NoCredential == [cluster |-> "unset", token |-> "unset"]

\* an operation that has not started: kind "none" is a process that runs nothing
NewOp(kind, database_id, name, table, tenant_name, id) ==
    [kind |-> kind,
     pc |-> IF kind = "none" THEN "idle"
            ELSE IF kind \in KeyspaceKinds THEN "retry"
            ELSE IF kind = "CDCCreate" THEN "org"
            ELSE "parse",
     reason |-> "none",
     \* ResourceData
     database_id |-> database_id, name |-> name, table |-> table,
     tenant_name |-> tenant_name, id |-> id,
     \* the id the operation started with
     id0 |-> id,
     connector_status |-> "unset", data_topic |-> "unset",
     \* the keyspace retry function
     attempts |-> 0, res |-> NoResponse, outcome |-> "none",
     resp |-> NoMutation, mutOutcome |-> "none",
     mutCalls |-> 0, conflicts |-> 0,
     \* the CDC operations
     retryCount |-> 0, orgCalls |-> 0, prepCalls |-> 0, listCalls |-> 0,
     cred |-> NoCredential, sent |-> NoCredential,
     accepted |-> FALSE, failSeen |-> FALSE,
     parsed |-> <<>>, cdcResult |-> <<>>,
     params |-> NoCredential, parent |-> "none",
     \* the keyspace read
     found |-> <<>>,
     \* ctx: whether it is done (deadline or cancellation), and whether it was
     \* already done when the call now in flight was started
     cancelled |-> FALSE, late |-> FALSE]

Set(p, fields) == op' = [op EXCEPT ![p] = fields @@ op[p]]

(***************************************************************************)
(* resourceKeyspaceCreate and resourceKeyspaceDelete: RetryContext runs    *)
(* the retry function until it returns nil or a non-retryable error, or    *)
(* until the timeout is due.                                               *)
(***************************************************************************)
\* the timeout of the operation elapses or its ctx is cancelled, at any point of
\* the operation
Cancel(p) ==
    /\ op[p].pc \notin {"idle", "done", "failed", "crashed"}
    /\ ~op[p].cancelled
    /\ Set(p, [cancelled |-> TRUE])
    /\ UNCHANGED <<keyspaceMutex, codec>>

\* RetryContext gives up: the timeout elapsed or ctx was cancelled. It is taken
\* between two runs of the retry function; a call cut short by ctx returns an
\* error, which is one of the responses of KsGetDatabase and KsMutate
KsTimeout(p) ==
    /\ op[p].kind \in KeyspaceKinds
    /\ op[p].pc = "retry"
    /\ op[p].cancelled
    /\ Set(p, [pc |-> "failed", reason |-> "timeout"])
    /\ UNCHANGED <<keyspaceMutex, codec>>

\* as MayStartAttempt, without the look at the timeout
MayStartAttemptPastTimeout(cancelled, attempts) == attempts < MaxAttempts

\* RetryContext runs the retry function again while the timeout has not elapsed
\* and ctx is not done
MayStartAttempt(cancelled, attempts) == ~cancelled /\ attempts < MaxAttempts

\* a new attempt: keyspaceMutex.Lock() before the status read
KsLockRead(p) ==
    /\ op[p].kind \in KeyspaceKinds
    /\ op[p].pc = "retry"
    /\ MayStartAttempt(op[p].cancelled, op[p].attempts)
    /\ keyspaceMutex = "free"
    /\ keyspaceMutex' = p
    /\ Set(p, [pc |-> "getdb", attempts |-> op[p].attempts + 1])
    /\ UNCHANGED codec

\* client.GetDatabaseWithResponse returns
KsGetDatabase(p) ==
    /\ op[p].kind \in KeyspaceKinds
    /\ op[p].pc = "getdb"
    /\ \E res \in GetDatabaseResponses :
          Set(p, [pc |-> "unlockRead", res |-> res, outcome |-> "none"])
    /\ UNCHANGED <<keyspaceMutex, codec>>

\* as Unlocked, with the Unlock skipped when the call returned an error
UnlockedUnlessError(holder, err) == IF err THEN holder ELSE "free"

\* keyspaceMutex after the Unlock() that follows a call at once, whatever the
\* call returned
Unlocked(holder, err) == "free"

\* keyspaceMutex.Unlock(), then the checks on err, StatusCode, JSON200 and db.Status
KsUnlockRead(p) ==
    /\ op[p].kind \in KeyspaceKinds
    /\ op[p].pc = "unlockRead"
    /\ keyspaceMutex' = Unlocked(p, op[p].res.err)
    /\ LET outcome == ClassifyStatus(op[p].res)
       IN  Set(p, [outcome |-> outcome,
                   pc |-> CASE outcome = "Retry" -> "retry"
                            [] outcome = "Fail" -> "failed"
                            [] OTHER -> "lockMut",
                   reason |-> IF outcome = "Fail" THEN "parent" ELSE op[p].reason])
    /\ UNCHANGED codec

\* case astra.ACTIVE: keyspaceMutex.Lock() before the mutation
KsLockMutation(p) ==
    /\ op[p].kind \in KeyspaceKinds
    /\ op[p].pc = "lockMut"
    /\ keyspaceMutex = "free"
    /\ keyspaceMutex' = p
    /\ Set(p, [pc |-> "mutate"])
    /\ UNCHANGED codec

\* client.AddKeyspaceWithResponse / client.DropKeyspaceWithResponse returns
KsMutate(p) ==
    /\ op[p].kind \in KeyspaceKinds
    /\ op[p].pc = "mutate"
    /\ \E resp \in MutationResponses :
          Set(p, [pc |-> "unlockMut", resp |-> resp, mutOutcome |-> "none",
                  mutCalls |-> op[p].mutCalls + 1,
                  conflicts |-> op[p].conflicts + IF ~resp.err /\ resp.code = 409 THEN 1 ELSE 0])
    /\ UNCHANGED <<keyspaceMutex, codec>>

\* as IdAfterMutation, with the id written before the response is checked
IdAfterMutationEager(kind, mutOutcome, id, database_id, name) ==
    IF kind = "KeyspaceCreate" THEN setKeyspaceResourceData(database_id, name) ELSE <<>>

\* the id a pass of the retry function leaves behind: an accepted create stores it
\* (setKeyspaceResourceData; d.Set on the two string attributes of the schema does
\* not fail), an accepted delete clears it (d.SetId("")), anything else returns first
IdAfterMutation(kind, mutOutcome, id, database_id, name) ==
    IF mutOutcome # "Accepted" THEN id
    ELSE IF kind = "KeyspaceCreate" THEN setKeyspaceResourceData(database_id, name)
    ELSE <<>>

\* keyspaceMutex.Unlock(), then the checks on err and resp.StatusCode()
KsUnlockMutation(p) ==
    /\ op[p].kind \in KeyspaceKinds
    /\ op[p].pc = "unlockMut"
    /\ keyspaceMutex' = Unlocked(p, op[p].resp.err)
    /\ LET mutOutcome == ClassifyMutation(op[p].resp)
       IN  Set(p, [mutOutcome |-> mutOutcome,
                   pc |-> CASE mutOutcome = "Retry" -> "retry"
                            [] mutOutcome = "Fail" -> "failed"
                            [] OTHER -> "done",
                   reason |-> IF mutOutcome = "Fail" THEN "mutation" ELSE op[p].reason,
                   id |-> IdAfterMutation(op[p].kind, mutOutcome, op[p].id,
                                          op[p].database_id, op[p].name)])
    /\ UNCHANGED codec

KsStep(p) ==
    \/ KsTimeout(p)
    \/ KsLockRead(p)
    \/ KsGetDatabase(p)
    \/ KsUnlockRead(p)
    \/ KsLockMutation(p)
    \/ KsMutate(p)
    \/ KsUnlockMutation(p)

(***************************************************************************)
(* resourceKeyspaceRead                                                    *)
(***************************************************************************)
\* parseKeyspaceID(d.Id()), whose error is returned
KsReadParse(p) ==
    /\ op[p].kind = "KeyspaceRead"
    /\ op[p].pc = "parse"
    /\ LET r == parseKeyspaceID(op[p].id)
       IN  IF r.err
           THEN Set(p, [pc |-> "failed", reason |-> "decode"])
           ELSE Set(p, [pc |-> "listKeyspaces", parsed |-> r.fields,
                        late |-> op[p].cancelled])
    /\ UNCHANGED <<keyspaceMutex, codec>>

\* what listKeyspaces can hand back: an error, or the keyspace names of the database
KeyspaceLists ==
    UNION {[1..n -> {<<"k", "s", "1">>, <<"K", "s">>, <<"k", "s">>}] : n \in 0..MaxListLen}

\* as IdAfterRead, without the d.SetId("") for a keyspace that is not listed
IdAfterReadKept(listed, id, databaseID, keyspaceName) ==
    IF listed THEN setKeyspaceResourceData(databaseID, keyspaceName) ELSE id

\* the id the read leaves behind once listKeyspaces has answered: the one
\* setKeyspaceResourceData stores for a listed keyspace, d.SetId("") otherwise
IdAfterRead(listed, id, databaseID, keyspaceName) ==
    IF listed THEN setKeyspaceResourceData(databaseID, keyspaceName) ELSE <<>>

\* listKeyspaces, whose error is returned; a name equal to the parsed one stores
\* the parsed fields again (setKeyspaceResourceData), otherwise d.SetId("")
KsReadList(p) ==
    /\ op[p].kind = "KeyspaceRead"
    /\ op[p].pc = "listKeyspaces"
    /\ \E err \in BOOLEAN, keyspaces \in KeyspaceLists :
          LET called == [listCalls |-> op[p].listCalls + 1]
          IN  IF err \/ op[p].late
              THEN /\ err /\ keyspaces = <<>>
                   /\ Set(p, called @@ [pc |-> "failed", reason |-> "listing"])
              ELSE IF \E i \in 1..Len(keyspaces) : keyspaces[i] = op[p].parsed[2]
              THEN Set(p, called @@ [pc |-> "done", found |-> keyspaces,
                                     id |-> IdAfterRead(TRUE, op[p].id, op[p].parsed[1],
                                                        op[p].parsed[2]),
                                     database_id |-> op[p].parsed[1],
                                     name |-> op[p].parsed[2]])
              ELSE Set(p, called @@ [pc |-> "done", found |-> keyspaces,
                                     id |-> IdAfterRead(FALSE, op[p].id, op[p].parsed[1],
                                                        op[p].parsed[2])])
    /\ UNCHANGED <<keyspaceMutex, codec>>

KsReadStep(p) ==
    \/ KsReadParse(p)
    \/ KsReadList(p)

(***************************************************************************)
(* The streaming control plane, as the responses its client can hand back. *)
(***************************************************************************)
\* an *http.Response by its status code, or a transport error (a nil response)
HttpResponses ==
    {[err |-> TRUE, code |-> 0]}
    \cup {[err |-> FALSE, code |-> c] : c \in {200, 401, 404, 409, 500}}

\* strings.HasPrefix(Status, "2")
HasPrefix2(resp) == resp.code >= 200 /\ resp.code < 300
\* strings.HasPrefix(Status, "401")
HasPrefix401(resp) == resp.code = 401

PulsarCluster == "pulsar-aws-useast1"
PulsarTokens == {"token-1", "token-2"}

\* what getDatabase hands prepCDC: the database once its status is ACTIVE, or an
\* error, with the terminal status that caused it or with no status at all (the
\* database could not be read, or never became ACTIVE in time)
GetDatabaseOutcomes ==
    {[err |-> FALSE, status |-> "ACTIVE"]}
    \cup {[err |-> TRUE, status |-> st] : st \in TerminalStatuses \cup {"none"}}

\* what prepCDC returns: ("", "", err) when getDatabase fails; otherwise
\* (cluster, token, nil), (cluster, "", err) when getPulsarToken fails, or a panic
\* on streamingTokens[0] of an empty token list. parent is the status getDatabase saw
PrepResults ==
    {[err |-> TRUE, panic |-> FALSE, cluster |-> "", token |-> "", parent |-> db.status] :
        db \in {o \in GetDatabaseOutcomes : o.err}}
    \cup {[err |-> FALSE, panic |-> FALSE, cluster |-> PulsarCluster, token |-> t,
           parent |-> db.status] :
             t \in PulsarTokens, db \in {o \in GetDatabaseOutcomes : ~o.err}}
    \cup {r @@ [parent |-> db.status] :
             r \in {[err |-> TRUE, panic |-> FALSE, cluster |-> PulsarCluster, token |-> ""],
                    [err |-> FALSE, panic |-> TRUE, cluster |-> "", token |-> ""]},
             db \in {o \in GetDatabaseOutcomes : ~o.err}}

\* prepCDC called with a ctx that is done: getDatabase returns the error of ctx
PrepPossible(late, r) == late => r.err /\ r.parent = "none"

\* the entries a GetCDC body can unmarshal to (CDCResult)
ListEntries ==
    {[keyspace |-> <<"k", "s", "1">>, table |-> <<"t", "b">>,
      connectorStatus |-> "running", dataTopic |-> "topic-ks1"],
     [keyspace |-> <<"k", "s">>, table |-> <<"t", "b">>,
      connectorStatus |-> "paused", dataTopic |-> "topic-ks"],
     [keyspace |-> <<"k", "b">>, table |-> <<"t", "0">>,
      connectorStatus |-> "error", dataTopic |-> "topic-kb"]}

Listings == UNION {[1..n -> ListEntries] : n \in 0..MaxListLen}

(***************************************************************************)
(* Steps shared by the three CDC operations.                               *)
(***************************************************************************)
\* a step of a CDC operation: every position it can reach but "sleep" is a client
\* call in flight, started with ctx as it is at the end of the step
CdcSet(p, fields) == Set(p, fields @@ [late |-> op[p].cancelled])

\* resourceCDCDelete / resourceCDCRead: parseCDCID(resourceData.Id())
CdcParse(p) ==
    /\ op[p].kind \in {"CDCDelete", "CDCRead"}
    /\ op[p].pc = "parse"
    /\ LET r == parseCDCID(op[p].id)
       IN  IF r.err
           THEN CdcSet(p, [pc |-> "failed", reason |-> "decode"])
           ELSE CdcSet(p, [pc |-> "org", parsed |-> r.fields])
    /\ UNCHANGED <<keyspaceMutex, codec>>

\* orgBody, _ := client.GetCurrentOrganization(ctx); ioutil.ReadAll(orgBody.Body):
\* the error of the call is dropped, so a failed call is a nil orgBody and a panic
CdcGetOrganization(p) ==
    /\ op[p].kind \in CDCKinds
    /\ op[p].pc = "org"
    /\ \E result \in {"ok", "error", "readError"} :
          /\ op[p].late => result = "error"
          /\ LET n == op[p].orgCalls + 1
             IN  CASE result = "ok" -> CdcSet(p, [pc |-> "prep", orgCalls |-> n])
                   [] result = "error" ->
                         CdcSet(p, [pc |-> "crashed", reason |-> "panic", orgCalls |-> n])
                   [] OTHER -> CdcSet(p, [pc |-> "failed", reason |-> "transport", orgCalls |-> n])
    /\ UNCHANGED <<keyspaceMutex, codec>>

(***************************************************************************)
(* resourceCDCCreate                                                       *)
(***************************************************************************)
\* the first prepCDC, whose error is returned; enableCDCParams is built from what
\* it returned
CdcCreatePrep(p) ==
    /\ op[p].kind = "CDCCreate"
    /\ op[p].pc = "prep"
    /\ \E r \in PrepResults :
          /\ PrepPossible(op[p].late, r)
          /\ LET called == [prepCalls |-> op[p].prepCalls + 1, parent |-> r.parent]
                 cred == [cluster |-> r.cluster, token |-> r.token]
             IN  IF r.panic
                 THEN CdcSet(p, called @@ [pc |-> "crashed", reason |-> "panic"])
                 ELSE IF r.err
                 THEN CdcSet(p, called @@ [pc |-> "failed", reason |-> "credential",
                                           failSeen |-> TRUE])
                 ELSE CdcSet(p, called @@ [pc |-> "enable", cred |-> cred, params |-> cred])
    /\ UNCHANGED <<keyspaceMutex, codec>>

\* as EnableBudgetSpent, one attempt later
EnableBudgetSpentLate(retryCount) == retryCount > 7

\* the check the enable loop makes on retryCount before it counts the attempt
EnableBudgetSpent(retryCount) == retryCount > 6

\* the enable loop after its sleep: the check on retryCount, then retryCount + 1
\* and on to prepCDC
AfterSleep(retryCount) ==
    IF EnableBudgetSpent(retryCount)
    THEN [pc |-> "failed", reason |-> "mutation"]
    ELSE [pc |-> "reprep", retryCount |-> retryCount + 1]

\* one pass of the enable loop up to its sleep: EnableCDC with enableCDCParams,
\* then the checks on err and on the "2" prefix; with retryCount > 0 the pass
\* goes into time.Sleep(20 * time.Second)
CdcEnable(p) ==
    /\ op[p].kind = "CDCCreate"
    /\ op[p].pc = "enable"
    /\ \E resp \in HttpResponses :
          /\ op[p].late => resp.err
          /\ LET called == [resp |-> resp, mutCalls |-> op[p].mutCalls + 1,
                            sent |-> op[p].params]
             IN  IF resp.err
                 THEN CdcSet(p, called @@ [pc |-> "failed", reason |-> "transport",
                                           failSeen |-> TRUE])
                 ELSE IF HasPrefix2(resp)
                 THEN CdcSet(p, called @@ [pc |-> "list", accepted |-> TRUE, retryCount |-> 0])
                 ELSE IF op[p].retryCount > 0
                 THEN CdcSet(p, called @@ [pc |-> "sleep"])
                 ELSE CdcSet(p, called @@ AfterSleep(op[p].retryCount))
    /\ UNCHANGED <<keyspaceMutex, codec>>

\* time.Sleep returns, whatever has become of ctx in the meantime
CdcSleep(p) ==
    /\ op[p].kind = "CDCCreate"
    /\ op[p].pc = "sleep"
    /\ CdcSet(p, AfterSleep(op[p].retryCount))
    /\ UNCHANGED <<keyspaceMutex, codec>>

\* the loop goes round again while the last EnableCDC status starts with "401"
EnableLoopContinues(resp) == HasPrefix401(resp)

\* as RebuiltParams, keeping the parameters of the first prepCDC
RebuiltParamsStale(old, pulsarCluster, pulsarToken) == old

\* enableCDCParams as the loop assigns it after its prepCDC
RebuiltParams(old, pulsarCluster, pulsarToken) ==
    [cluster |-> pulsarCluster, token |-> pulsarToken]

\* the rest of the pass: prepCDC again, enableCDCParams rebuilt, then the loop
\* condition; when the loop ends the convergence loop starts with retryCount = 0
CdcEnablePrep(p) ==
    /\ op[p].kind = "CDCCreate"
    /\ op[p].pc = "reprep"
    /\ \E r \in PrepResults :
          /\ PrepPossible(op[p].late, r)
          /\ LET called == [prepCalls |-> op[p].prepCalls + 1, parent |-> r.parent]
                 rebuilt == [cred |-> [cluster |-> r.cluster, token |-> r.token],
                             params |-> RebuiltParams(op[p].params, r.cluster, r.token)]
             IN  IF r.panic
                 THEN CdcSet(p, called @@ [pc |-> "crashed", reason |-> "panic"])
                 ELSE IF r.err
                 THEN CdcSet(p, called @@ [pc |-> "failed", reason |-> "credential",
                                           failSeen |-> TRUE])
                 ELSE IF EnableLoopContinues(op[p].resp)
                 THEN CdcSet(p, called @@ rebuilt @@ [pc |-> "enable"])
                 ELSE CdcSet(p, called @@ rebuilt @@ [pc |-> "list", retryCount |-> 0])
    /\ UNCHANGED <<keyspaceMutex, codec>>

\* one pass of the convergence loop: GetCDC with getCDCParams (pulsarCluster and
\* pulsarToken as the enable loop left them), the checks on err and on the "2"
\* prefix, json.Unmarshal into cdcResult, the check on retryCount (which this loop
\* never increments), then the loop condition; after the loop connector_status and
\* data_topic are read from cdcResult[0] and the id is set
CdcList(p) ==
    /\ op[p].kind = "CDCCreate"
    /\ op[p].pc = "list"
    /\ op[p].listCalls < MaxListCalls
    /\ \E resp \in HttpResponses, listing \in Listings :
          /\ op[p].late => resp.err
          /\ LET called == [listCalls |-> op[p].listCalls + 1, sent |-> op[p].cred]
             IN  IF resp.err
                 THEN /\ listing = <<>>
                      /\ CdcSet(p, called @@ [pc |-> "failed", reason |-> "transport",
                                              failSeen |-> TRUE])
                 ELSE IF ~HasPrefix2(resp)
                 THEN /\ listing = <<>>
                      /\ CdcSet(p, called @@ [pc |-> "failed", reason |-> "listing"])
                 ELSE IF op[p].retryCount > 6
                 THEN CdcSet(p, called @@ [pc |-> "failed", reason |-> "convergence",
                                           cdcResult |-> listing])
                 ELSE IF Len(listing) <= 0
                 THEN CdcSet(p, called @@ [cdcResult |-> listing])
                 ELSE CdcSet(p, called @@ [pc |-> "done", cdcResult |-> listing,
                                           connector_status |-> listing[1].connectorStatus,
                                           data_topic |-> listing[1].dataTopic,
                                           id |-> CDCID(op[p].database_id, op[p].name,
                                                        op[p].table, op[p].tenant_name)])
    /\ UNCHANGED <<keyspaceMutex, codec>>

(***************************************************************************)
(* resourceCDCDelete and resourceCDCRead                                   *)
(***************************************************************************)
\* prepCDC in delete and read: diag.FromErr(err) is built and dropped, so the
\* operation goes on with what prepCDC returned
CdcPrepUnchecked(p) ==
    /\ op[p].kind \in {"CDCDelete", "CDCRead"}
    /\ op[p].pc = "prep"
    /\ \E r \in PrepResults :
          /\ PrepPossible(op[p].late, r)
          /\ LET called == [prepCalls |-> op[p].prepCalls + 1, parent |-> r.parent]
                 next == IF op[p].kind = "CDCDelete" THEN "delete" ELSE "get"
             IN  IF r.panic
                 THEN CdcSet(p, called @@ [pc |-> "crashed", reason |-> "panic"])
                 ELSE CdcSet(p, called @@ [pc |-> next, failSeen |-> r.err,
                                           cred |-> [cluster |-> r.cluster, token |-> r.token]])
    /\ UNCHANGED <<keyspaceMutex, codec>>

\* DeleteCDC: its error is dropped too, and the nil response panics on .Status
CdcDelete(p) ==
    /\ op[p].kind = "CDCDelete"
    /\ op[p].pc = "delete"
    /\ \E resp \in HttpResponses :
          /\ op[p].late => resp.err
          /\ LET called == [resp |-> resp, mutCalls |-> op[p].mutCalls + 1, sent |-> op[p].cred]
             IN  IF resp.err
                 THEN CdcSet(p, called @@ [pc |-> "crashed", reason |-> "panic",
                                           failSeen |-> TRUE])
                 ELSE IF ~HasPrefix2(resp)
                 THEN CdcSet(p, called @@ [pc |-> "failed", reason |-> "mutation"])
                 ELSE CdcSet(p, called @@ [pc |-> "done", id |-> <<>>])
    /\ UNCHANGED <<keyspaceMutex, codec>>

\* whether some entry has the parsed keyspace and table
Matches(listing, keyspace, table) ==
    \E i \in 1..Len(listing) :
        listing[i].keyspace = keyspace /\ listing[i].table = table

\* GetCDC in read: a dropped error panics on the nil response; a match returns
\* with the state as it is; otherwise the fields of cdcResult[0] are stored (a
\* panic when the listing is empty) and the id is cleared
CdcRead(p) ==
    /\ op[p].kind = "CDCRead"
    /\ op[p].pc = "get"
    /\ \E resp \in HttpResponses, listing \in Listings :
          /\ op[p].late => resp.err
          /\ LET called == [resp |-> resp, listCalls |-> op[p].listCalls + 1,
                            sent |-> op[p].cred]
             IN  IF resp.err
                 THEN /\ listing = <<>>
                      /\ CdcSet(p, called @@ [pc |-> "crashed", reason |-> "panic", failSeen |-> TRUE])
                 ELSE IF ~HasPrefix2(resp)
                 THEN /\ listing = <<>>
                      /\ CdcSet(p, called @@ [pc |-> "failed", reason |-> "listing"])
                 ELSE IF Matches(listing, op[p].parsed[2], op[p].parsed[3])
                 THEN CdcSet(p, called @@ [pc |-> "done", cdcResult |-> listing])
                 ELSE IF Len(listing) = 0
                 THEN CdcSet(p, called @@ [pc |-> "crashed", reason |-> "panic", cdcResult |-> listing])
                 ELSE CdcSet(p, called @@ [pc |-> "done", cdcResult |-> listing,
                                        connector_status |-> listing[1].connectorStatus,
                                        data_topic |-> listing[1].dataTopic,
                                        id |-> <<>>])
    /\ UNCHANGED <<keyspaceMutex, codec>>

CdcStep(p) ==
    \/ CdcParse(p)
    \/ CdcGetOrganization(p)
    \/ CdcCreatePrep(p)
    \/ CdcEnable(p)
    \/ CdcSleep(p)
    \/ CdcEnablePrep(p)
    \/ CdcList(p)
    \/ CdcPrepUnchecked(p)
    \/ CdcDelete(p)
    \/ CdcRead(p)

(***************************************************************************)
(* One operation at a time: a create starts without an id, a delete or a   *)
(* read starts from the id an earlier create of the same resource stored,  *)
(* or from an id that came in through ImportStatePassthroughContext.       *)
(***************************************************************************)
DbIds == {<<"d", "b", "-", "1">>, <<"D", "B", "-", "2">>}
KeyspaceNames == {<<"k", "s", "1">>, <<"K", "s">>}
Table == <<"t", "b">>
TenantName == <<"t", "n">>

Idle == NewOp("none", <<>>, <<>>, <<>>, <<>>, <<>>)

StartOp(kind, db, ks) ==
    NewOp(kind, db, ks,
          IF kind \in CDCKinds THEN Table ELSE <<>>,
          IF kind \in CDCKinds THEN TenantName ELSE <<>>,
          CASE kind \in {"KeyspaceDelete", "KeyspaceRead"} -> setKeyspaceResourceData(db, ks)
            [] kind \in {"CDCDelete", "CDCRead"} -> CDCID(db, ks, Table, TenantName)
            [] OTHER -> <<>>)

\* the operations that parse the id they start from
DecodingKinds == {"KeyspaceRead", "CDCDelete", "CDCRead"}

\* ids the passthrough importer accepts as typed: "db-1", "db-1/ks1/tb",
\* "db-1/ks1/tb/tn/x", "db-1/keyspace/ks1/keyspace/k", "db-1/keyspace/ks1", "db-1/ks1/tb/tn"
ImportedIds ==
    LET db == <<"d", "b", "-", "1">>
        ks == <<"k", "s", "1">>
    IN  {db,
         db \o Slash \o ks \o Slash \o Table,
         db \o Slash \o ks \o Slash \o Table \o Slash \o TenantName \o Slash \o <<"x">>,
         db \o KeyspaceSep \o ks \o KeyspaceSep \o <<"k">>,
         db \o KeyspaceSep \o ks,
         db \o Slash \o ks \o Slash \o Table \o Slash \o TenantName}

\* an operation on an imported resource: of its ResourceData only the id is set
StartImported(kind, id) == NewOp(kind, <<>>, <<>>, <<>>, <<>>, id)

CodecIdle == [pc |-> "idle", arity |-> 0, fields |-> <<>>, id |-> <<>>,
              err |-> FALSE, out |-> <<>>]

Init ==
    /\ \/ \E kind \in KeyspaceKinds \cup CDCKinds \cup {"KeyspaceRead"},
             db \in DbIds, ks \in KeyspaceNames :
             op = [p \in Procs |-> IF p = "p1" THEN StartOp(kind, db, ks) ELSE Idle]
       \/ \E kind \in DecodingKinds, id \in ImportedIds :
             op = [p \in Procs |-> IF p = "p1" THEN StartImported(kind, id) ELSE Idle]
    /\ keyspaceMutex = "free"
    /\ codec = CodecIdle

Next == \E p \in Procs : Cancel(p) \/ KsStep(p) \/ KsReadStep(p) \/ CdcStep(p)

Spec == Init /\ [][Next]_vars

(***************************************************************************)
(* One keyspace create or delete that keeps running: the goroutine of the  *)
(* operation is scheduled, every client call returns, and the timer of the *)
(* timeout fires.                                                          *)
(***************************************************************************)
InitKeyspace ==
    /\ \E kind \in KeyspaceKinds, db \in DbIds, ks \in KeyspaceNames :
          op = [p \in Procs |-> IF p = "p1" THEN StartOp(kind, db, ks) ELSE Idle]
    /\ keyspaceMutex = "free"
    /\ codec = CodecIdle

NextKeyspace == \E p \in Procs : Cancel(p) \/ KsStep(p)

SpecKeyspaceFair ==
    /\ InitKeyspace
    /\ [][NextKeyspace]_vars
    /\ \A p \in Procs : WF_vars(Cancel(p) \/ KsStep(p))

(***************************************************************************)
(* Two operations on the same database, keyspace and table running side by *)
(* side in the provider process, as terraform schedules the resources of   *)
(* one apply or destroy: keyspace creates and deletes, and CDC deletes.    *)
(* The keyspace operations are followed from the point where the database  *)
(* has answered INITIALIZING to all their attempts but the last two.       *)
(***************************************************************************)
ConcurrentKinds == {"KeyspaceCreate", "KeyspaceDelete", "CDCDelete"}

StartConcurrent(kind, db, ks) ==
    IF kind \in KeyspaceKinds
    THEN [StartOp(kind, db, ks) EXCEPT
             !.attempts = MaxAttempts - 2,
             !.res = [err |-> FALSE, code |-> 200, body |-> TRUE, status |-> "INITIALIZING"],
             !.outcome = "Retry"]
    ELSE StartOp(kind, db, ks)

InitConcurrent ==
    /\ \E k1 \in ConcurrentKinds, k2 \in ConcurrentKinds :
          LET db == <<"d", "b", "-", "1">>
              ks == <<"k", "s", "1">>
          IN  op = [p \in Procs |-> StartConcurrent(IF p = "p1" THEN k1 ELSE k2, db, ks)]
    /\ keyspaceMutex = "free"
    /\ codec = CodecIdle

CdcDeleteStep(p) ==
    \/ CdcParse(p)
    \/ CdcGetOrganization(p)
    \/ CdcPrepUnchecked(p)
    \/ CdcDelete(p)

NextConcurrent == \E p \in Procs : Cancel(p) \/ KsStep(p) \/ CdcDeleteStep(p)

SpecConcurrent == InitConcurrent /\ [][NextConcurrent]_vars

\* two keyspace operations side by side and kept running: each goroutine is
\* scheduled, every client call returns, the timers fire
InitKeyspacePair ==
    /\ \E k1 \in KeyspaceKinds, k2 \in KeyspaceKinds :
          LET db == <<"d", "b", "-", "1">>
              ks == <<"k", "s", "1">>
          IN  op = [p \in Procs |-> StartConcurrent(IF p = "p1" THEN k1 ELSE k2, db, ks)]
    /\ keyspaceMutex = "free"
    /\ codec = CodecIdle

SpecKeyspacePairFair ==
    /\ InitKeyspacePair
    /\ [][NextKeyspace]_vars
    /\ \A p \in Procs : WF_vars(Cancel(p) \/ KsStep(p))

(***************************************************************************)
(* The identity codec on its own: a tuple of well-formed fields is encoded *)
(* the way the create operations store it and decoded the way read and     *)
(* delete parse it.                                                        *)
(***************************************************************************)
CodecAlphabet == {"a", "B", "_"}
GeneratedNames ==
    {s \in UNION {[1..n -> CodecAlphabet] : n \in 1..MaxFieldLen} : validateKeyspace(s)}
CodecDbIds == {<<"d", "b", "-", "1">>, <<"d", "b", "-", "2">>}
CodecTables == {<<"t", "b">>, <<"t", "1">>}

CodecInputs ==
    {<<db, ks>> : db \in CodecDbIds, ks \in GeneratedNames}
    \cup {<<db, ks, tb, TenantName>> :
             db \in CodecDbIds, ks \in GeneratedNames, tb \in CodecTables}

InitCodec ==
    /\ op = [p \in Procs |-> Idle]
    /\ keyspaceMutex = "free"
    /\ \E fields \in CodecInputs :
          codec = [pc |-> "input", arity |-> Len(fields), fields |-> fields,
                   id |-> <<>>, err |-> FALSE, out |-> <<>>]

\* the id a successful create stores for the fields
CodecEncode ==
    /\ codec.pc = "input"
    /\ codec' = [codec EXCEPT
          !.pc = "encoded",
          !.id = IF codec.arity = 2
                 THEN setKeyspaceResourceData(codec.fields[1], codec.fields[2])
                 ELSE CDCID(codec.fields[1], codec.fields[2], codec.fields[3], codec.fields[4])]
    /\ UNCHANGED <<op, keyspaceMutex>>

\* what read and delete parse from the stored id
CodecDecode ==
    /\ codec.pc = "encoded"
    /\ LET r == IF codec.arity = 2 THEN parseKeyspaceID(codec.id) ELSE parseCDCID(codec.id)
       IN  codec' = [codec EXCEPT !.pc = "decoded", !.err = r.err, !.out = r.fields]
    /\ UNCHANGED <<op, keyspaceMutex>>

NextCodec == CodecEncode \/ CodecDecode

SpecCodec == InitCodec /\ [][NextCodec]_vars

(***************************************************************************)
(* Properties.                                                             *)
(***************************************************************************)
KsOps == {p \in Procs : op[p].kind \in KeyspaceKinds}
CdcCreates == {p \in Procs : op[p].kind = "CDCCreate"}
CdcOps == {p \in Procs : op[p].kind \in CDCKinds}

ReadActive(o) == ~o.res.err /\ o.res.code = 200 /\ o.res.body /\ o.res.status = "ACTIVE"

\* C1: in keyspace create and delete the mutation is called only in an attempt whose
\* status read returned 200 with status ACTIVE (so never more mutations than status
\* reads), and a first read of ERROR, TERMINATED or TERMINATING ends the operation
\* Failed with no mutation call at all.
C1_MutationOnlyWhenActive ==
    \A p \in KsOps :
        /\ op[p].pc \in {"lockMut", "mutate", "unlockMut"} => ReadActive(op[p])
        /\ op[p].mutCalls <= op[p].attempts
        /\ (/\ op[p].attempts = 1
            /\ op[p].pc \notin {"getdb", "unlockRead"}
            /\ op[p].res.status \in TerminalStatuses)
           => op[p].pc = "failed" /\ op[p].mutCalls = 0

C1_Witness ==
    \E p \in KsOps :
        op[p].pc = "unlockMut" /\ op[p].attempts = 2 /\ op[p].mutCalls = 1

\* the policy of C2, in its priority order
StatusPolicy(res) ==
    CASE res.err -> "Retry"
      [] ~res.err /\ res.code >= 500 -> "Retry"
      [] ~res.err /\ res.code < 500 /\ (res.code > 200 \/ ~res.body) -> "Fail"
      [] ~res.err /\ res.code <= 200 /\ res.body /\ res.status \in TerminalStatuses -> "Fail"
      [] ~res.err /\ res.code <= 200 /\ res.body /\ res.status = "ACTIVE" -> "Proceed"
      [] OTHER -> "Retry"

\* C2: every status read of keyspace create and delete is classified as the policy
\* says: transport error -> Retry; code >= 500 -> Retry; code > 200 or no body ->
\* Fail; terminal status -> Fail; ACTIVE -> Proceed; any other status -> Retry. A
\* terminal status is never Proceed or Retry, another non-ACTIVE status is Retry.
C2_StatusClassification ==
    \A p \in KsOps :
        op[p].outcome # "none" =>
            /\ op[p].outcome = StatusPolicy(op[p].res)
            /\ op[p].res.status \in TerminalStatuses => op[p].outcome = "Fail"
            /\ op[p].res.body /\ op[p].res.status \notin TerminalStatuses \cup {"ACTIVE"}
                  => op[p].outcome = "Retry"

C2_Witness ==
    \E p \in KsOps :
        op[p].outcome = "Retry" /\ ~op[p].res.err /\ op[p].res.code = 500

\* the policy of C3
MutationPolicy(resp) ==
    CASE resp.err -> "Fail"
      [] ~resp.err /\ resp.code = 409 -> "Retry"
      [] ~resp.err /\ resp.code = 401 -> "Fail"
      [] ~resp.err /\ resp.code >= 400 /\ resp.code \notin {401, 409} -> "Fail"
      [] OTHER -> "Accepted"

\* C3: in keyspace create and delete a mutation that ends in a transport error, in
\* 401 or in another code >= 400 ends the operation Failed; 409 leads to a new
\* attempt, with its own status read; a code below 400 is accepted. Every mutation
\* call but the last one was answered 409.
C3_MutationClassification ==
    \A p \in KsOps :
        /\ op[p].mutOutcome # "none" => op[p].mutOutcome = MutationPolicy(op[p].resp)
        /\ op[p].mutOutcome = "Fail" => op[p].pc = "failed"
        /\ op[p].mutOutcome = "Accepted" => op[p].pc = "done"
        /\ op[p].conflicts >= op[p].mutCalls - 1
        /\ op[p].mutCalls <= op[p].attempts

C3_Witness ==
    \E p \in KsOps :
        op[p].pc = "failed" /\ op[p].mutCalls = 2 /\ op[p].resp.code = 401

\* C4 as stated: in CDC create, with EnableCDC answering 401 every time and prepCDC
\* succeeding every time, the operation ends Failed after at most 7 EnableCDC calls
\* and at most 7 prepCDC calls.
C4_SevenAttempts ==
    \A p \in CdcCreates : op[p].mutCalls <= 7 /\ op[p].prepCalls <= 7

\* C4 as amended: the bound is 8: the operation never makes more than 8 EnableCDC
\* calls or more than 8 prepCDC calls, and an eighth EnableCDC call that is not
\* accepted ends it Failed, with nothing but the sleep of the loop in between.
C4_EightAttempts ==
    \A p \in CdcCreates :
        /\ op[p].mutCalls <= 8
        /\ op[p].prepCalls <= 8
        /\ op[p].mutCalls = 8 /\ ~HasPrefix2(op[p].resp) => op[p].pc \in {"sleep", "failed"}

C4_Witness ==
    \E p \in CdcCreates :
        /\ op[p].pc = "failed"
        /\ op[p].mutCalls = 8
        /\ op[p].prepCalls = 8
        /\ op[p].resp.code = 401

\* C5: in CDC create the convergence loop stops after a fixed number of listings
\* (the 8 that its check of retryCount > 6 allows) when every listing is empty.
C5_ConvergenceBounded ==
    \A p \in CdcCreates : op[p].listCalls <= 8

\* C6: CDC create succeeds and stores an id only if an EnableCDC call returned 2xx,
\* and issues no convergence listing otherwise.
C6_SuccessOnlyIfAccepted ==
    \A p \in CdcCreates :
        (op[p].pc = "done" \/ op[p].id # <<>> \/ op[p].listCalls > 0) => op[p].accepted

RemoteCalls(o) == o.orgCalls + o.mutCalls + o.prepCalls + o.listCalls

\* C7: in the CDC operations, once prepCDC has failed or a mutation or listing call
\* has returned a transport error, the operation issues no further remote call.
C7_FailIsTerminal ==
    [][\A p \in Procs :
          op[p].kind \in CDCKinds /\ op[p].failSeen
             => RemoteCalls(op'[p]) = RemoteCalls(op[p])]_vars

Creates == {p \in Procs : op[p].kind \in {"KeyspaceCreate", "CDCCreate"}}
Deletes == {p \in Procs : op[p].kind \in {"KeyspaceDelete", "CDCDelete"}}

\* the id the resource of a delete had when the delete started
IdBeforeDelete(o) == o.id0

\* C8 as stated: a create or delete that ends Failed, for another reason than a
\* convergence timeout, leaves the id empty.
C8_FailedLeavesIdUnset ==
    \A p \in Creates \cup Deletes :
        op[p].pc = "failed" /\ op[p].reason # "convergence" => op[p].id = <<>>

\* C8 as amended: a create that ends Failed, for another reason than a convergence
\* timeout, leaves the id empty; a delete that ends Failed leaves the id as it was
\* before the delete, which is not empty.
C8_FailedCreateUnsetFailedDeleteKept ==
    /\ \A p \in Creates :
          op[p].pc = "failed" /\ op[p].reason # "convergence" => op[p].id = <<>>
    /\ \A p \in Deletes :
          op[p].pc = "failed" => op[p].id = IdBeforeDelete(op[p]) /\ op[p].id # <<>>

C8_Witness ==
    \E p \in Deletes :
        op[p].pc = "failed" /\ op[p].reason = "mutation" /\ op[p].id = IdBeforeDelete(op[p])

\* C9: a keyspace create whose last mutation call was accepted has succeeded, and a
\* keyspace create that succeeded has stored "<databaseID>/keyspace/<name>" (for
\* db-1 and ks1, "db-1/keyspace/ks1") after exactly one mutation call more than
\* the 409 answers it got, the last status read being ACTIVE.
C9_KeyspaceCreateEndToEnd ==
    \A p \in Procs :
        op[p].kind = "KeyspaceCreate" =>
            /\ (/\ op[p].mutCalls >= 1
                /\ op[p].pc # "unlockMut"
                /\ ~op[p].resp.err
                /\ op[p].resp.code < 400)
               => op[p].pc = "done"
            /\ op[p].pc = "done" =>
                  /\ op[p].id = op[p].database_id \o KeyspaceSep \o op[p].name
                  /\ op[p].mutCalls = op[p].conflicts + 1
                  /\ ReadActive(op[p])
                  /\ (op[p].database_id = <<"d", "b", "-", "1">> /\ op[p].name = <<"k", "s", "1">>)
                        => op[p].id = <<"d", "b", "-", "1", "/", "k", "e", "y", "s", "p",
                                        "a", "c", "e", "/", "k", "s", "1">>

C9_Witness ==
    \E p \in Procs :
        /\ op[p].kind = "KeyspaceCreate"
        /\ op[p].pc = "done"
        /\ op[p].attempts = 4
        /\ op[p].conflicts = 1
        /\ op[p].database_id = <<"d", "b", "-", "1">>
        /\ op[p].name = <<"k", "s", "1">>

\* C10: parseCDCID of the id CDC create stores for (databaseId, keyspace, table,
\* tenant), none of them holding a '/', returns these four fields.
C10_CDCIDRoundTrip ==
    codec.pc = "decoded" /\ codec.arity = 4 => ~codec.err /\ codec.out = codec.fields

\* C11: parseKeyspaceID of the id setKeyspaceResourceData stores for a database id
\* and a keyspace name the validator accepts returns this database id and this name.
C11_KeyspaceIDRoundTrip ==
    codec.pc = "decoded" /\ codec.arity = 2 /\ validateKeyspace(codec.fields[2])
        => ~codec.err /\ codec.out = codec.fields

C11_Witness ==
    /\ codec.pc = "decoded"
    /\ codec.arity = 2
    /\ codec.fields = <<<<"d", "b", "-", "1">>, <<"B", "_">>>>
    /\ codec.id = <<"d", "b", "-", "1", "/", "k", "e", "y", "s", "p", "a", "c", "e", "/", "B", "_">>
    /\ codec.out = codec.fields

\* the parts sep cuts id into, counted on the id itself
Segments(id, sep) == 1 + Cardinality({i \in 1..Len(id) : OccursAt(id, sep, i)})

Arity(kind) == IF kind = "KeyspaceRead" THEN 2 ELSE 4
Separator(kind) == IF kind = "KeyspaceRead" THEN KeyspaceSep ELSE Slash

\* C12: an id whose number of parts is not the arity (2 parts on "/keyspace/" for
\* parseKeyspaceID, 4 parts on "/" for parseCDCID) is refused with no fields
\* returned, and the read or delete that parsed it ends Failed with no remote call
\* and its id untouched; an id with the right number of parts is not refused.
C12_MalformedIdRefused ==
    \A p \in Procs :
        op[p].kind \in DecodingKinds /\ op[p].pc # "parse" =>
            IF Segments(op[p].id0, Separator(op[p].kind)) # Arity(op[p].kind)
            THEN /\ op[p].pc = "failed"
                 /\ op[p].reason = "decode"
                 /\ op[p].parsed = <<>>
                 /\ RemoteCalls(op[p]) = 0
                 /\ op[p].id = op[p].id0
            ELSE /\ op[p].reason # "decode"
                 /\ Len(op[p].parsed) = Arity(op[p].kind)

C12_Witness ==
    \E p \in Procs :
        /\ op[p].kind = "CDCDelete"
        /\ op[p].pc = "failed"
        /\ op[p].reason = "decode"
        /\ Segments(op[p].id0, Slash) = 5

\* a mutation call that has been issued and has not returned: AddKeyspace or
\* DropKeyspace between Lock and the response, EnableCDC or DeleteCDC between the
\* end of prepCDC and the response
MutationInFlight(p) ==
    \/ op[p].kind \in KeyspaceKinds /\ op[p].pc = "mutate"
    \/ op[p].kind = "CDCCreate" /\ op[p].pc = "enable"
    \/ op[p].kind = "CDCDelete" /\ op[p].pc = "delete"

\* whether two operations work on the same child entity
SameEntityKey(p, q) ==
    /\ (op[p].kind \in KeyspaceKinds) = (op[q].kind \in KeyspaceKinds)
    /\ op[p].database_id = op[q].database_id
    /\ op[p].name = op[q].name
    /\ op[p].table = op[q].table
    /\ op[p].tenant_name = op[q].tenant_name

\* C13: no two mutation calls for the same entity key (AddKeyspace / DropKeyspace
\* of one keyspace, EnableCDC / DeleteCDC of one table) are in flight at the same
\* time, however the operations of the process interleave.
C13_MutationsSerialized ==
    \A p \in Procs, q \in Procs :
        p # q /\ SameEntityKey(p, q) => ~(MutationInFlight(p) /\ MutationInFlight(q))

\* an operation between its status read that returned ACTIVE and the return of the
\* mutation call that follows it
BetweenReadAndMutation(p) ==
    /\ op[p].kind \in KeyspaceKinds
    /\ op[p].pc \in {"unlockRead", "lockMut", "mutate"}
    /\ ReadActive(op[p])

\* C14: in keyspace create and delete, between the status read of an operation
\* that returned ACTIVE and its mutation call, no other operation of the process
\* issues a status read or a mutation call.
C14_ReadAndMutationInOneSection ==
    [][\A p \in Procs, q \in Procs :
          p # q /\ BetweenReadAndMutation(p) /\ op[q].kind \in KeyspaceKinds
             => /\ op'[q].attempts = op[q].attempts
                /\ op'[q].mutCalls = op[q].mutCalls]_vars

\* C15: a keyspace create or delete does not retry for ever: once its timeout has
\* elapsed or its ctx is cancelled it starts no new attempt, it comes to an end, and
\* when the attempts it made all ended in Retry that end is Failed.
C15_RetryEndsAtTimeout ==
    /\ [][\A p \in Procs :
             op[p].kind \in KeyspaceKinds /\ op[p].cancelled
                => op'[p].attempts = op[p].attempts]_vars
    /\ \A p \in Procs :
          (op[p].kind \in KeyspaceKinds /\ op[p].cancelled)
             ~> (op[p].pc \in {"done", "failed"})
    /\ \A p \in Procs :
          (op[p].kind \in KeyspaceKinds /\ op[p].cancelled /\ op[p].pc = "retry")
             ~> (op[p].pc = "failed" /\ op[p].reason = "timeout")

C15_Witness ==
    \E p \in Procs :
        /\ op[p].kind \in KeyspaceKinds
        /\ op[p].pc = "failed"
        /\ op[p].reason = "timeout"
        /\ op[p].cancelled
        /\ op[p].attempts = 3
        /\ op[p].mutCalls = 1
        /\ op[p].outcome = "Retry"

\* the positions of a CDC create that are a client call in flight
CdcCallPositions == {"org", "prep", "enable", "reprep", "list"}

\* C16: in CDC create, once the deadline of the caller has passed or its ctx is
\* cancelled, the operation starts no further retry sleep, no further EnableCDC,
\* prepCDC or GetCDC call gets through to the control plane (a call made with the
\* dead ctx comes back with its error), and the operation ends Failed on it.
C16_CreateObservesDeadline ==
    [][\A p \in Procs :
          op[p].kind = "CDCCreate" /\ op[p].cancelled /\ op'[p] # op[p]
             => /\ op'[p].pc # "sleep"
                /\ (op[p].late /\ op[p].pc \in CdcCallPositions \ {"org"})
                      => op'[p].pc = "failed"]_vars

\* C17: a CDC create goes on to success only when the listing holds an entry with
\* the keyspace and the table of the resource; a listing that holds only entries
\* of other tables does not count.
C17_ConvergenceNeedsMatch ==
    \A p \in CdcCreates :
        op[p].pc = "done" => Matches(op[p].cdcResult, op[p].name, op[p].table)

\* whether the last listing the operation fetched shows its entity
ListedPresent(o) ==
    IF o.kind \in KeyspaceKinds
    THEN \E i \in 1..Len(o.found) : o.found[i] = o.name
    ELSE Matches(o.cdcResult, o.name, o.table)

\* C18: keyspace create, keyspace delete, CDC create and CDC delete report success
\* only after a listing confirmed the outcome: the entity present after a create,
\* absent after a delete.
C18_SuccessAfterConvergence ==
    \A p \in Creates \cup Deletes :
        op[p].pc = "done" =>
            /\ op[p].listCalls > 0
            /\ ListedPresent(op[p]) = (p \in Creates)

\* C19: CDC create and delete issue EnableCDC / DeleteCDC only after the status
\* read of their prepCDC returned ACTIVE, and never when it found the database in
\* ERROR, TERMINATED or TERMINATING.
C19_MutationAfterParentActive ==
    [][\A p \in Procs :
          op[p].kind \in {"CDCCreate", "CDCDelete"} /\ op'[p].mutCalls > op[p].mutCalls
             => op[p].parent = "ACTIVE"]_vars

\* C20: in CDC create every EnableCDC attempt is preceded by exactly one prepCDC of
\* its own and carries the cluster and token that prepCDC returned, the listing
\* carries those of the last prepCDC, and a prepCDC that fails ends the operation
\* Failed as its last call.
C20_CredentialsRefreshed ==
    \A p \in CdcCreates :
        /\ op[p].pc = "enable" =>
              /\ op[p].prepCalls = op[p].mutCalls + 1
              /\ op[p].params = op[p].cred
              /\ op[p].cred.cluster = PulsarCluster
              /\ op[p].cred.token \in PulsarTokens
        /\ (op[p].mutCalls > 0 /\ op[p].pc \in {"sleep", "reprep"}) =>
              /\ op[p].prepCalls = op[p].mutCalls
              /\ op[p].sent = op[p].cred
        /\ op[p].listCalls > 0 =>
              /\ op[p].sent = op[p].cred
              /\ op[p].cred.token \in PulsarTokens
        /\ op[p].reason = "credential" =>
              /\ op[p].pc = "failed"
              /\ op[p].prepCalls = op[p].mutCalls + 1

C20_Witness ==
    \E p \in CdcCreates :
        /\ op[p].pc = "done"
        /\ op[p].mutCalls = 3
        /\ op[p].prepCalls = 3
        /\ op[p].resp.code = 200
        /\ op[p].params.token = "token-2"
        /\ op[p].sent = op[p].params

\* the keyspace and table a CDC operation works on: the fields of the resource
\* in create, the parsed id in read
EntityKeyspace(o) == IF o.kind = "CDCRead" THEN o.parsed[2] ELSE o.name
EntityTable(o) == IF o.kind = "CDCRead" THEN o.parsed[3] ELSE o.table

\* C21: the connector_status and data_topic that CDC create and CDC read store
\* are those of an entry of the listing with the keyspace and table of the
\* entity, also when that entry is not the first one; never those of another entry.
C21_FieldsOfMatchingEntry ==
    \A p \in Procs :
        (op[p].kind \in {"CDCCreate", "CDCRead"} /\ op[p].connector_status # "unset") =>
            \E i \in 1..Len(op[p].cdcResult) :
                /\ op[p].cdcResult[i].keyspace = EntityKeyspace(op[p])
                /\ op[p].cdcResult[i].table = EntityTable(op[p])
                /\ op[p].cdcResult[i].connectorStatus = op[p].connector_status
                /\ op[p].cdcResult[i].dataTopic = op[p].data_topic

\* the positions of a keyspace operation between Lock() and the Unlock() after
\* the call: the call in flight, and the call returned
InsideCall == {"getdb", "unlockRead", "mutate", "unlockMut"}

\* C22: keyspaceMutex is held only around a single client call: whoever holds it
\* is a keyspace create or delete inside its status read or its mutation call, so
\* it is not held during a retry wait, while waiting for the second Lock, or
\* after the operation ended; and with operations running side by side none
\* waits for the mutex for ever: every keyspace operation comes to its end.
C22_MutexHeldPerCall ==
    /\ [](\A p \in Procs :
            /\ keyspaceMutex = p => op[p].kind \in KeyspaceKinds /\ op[p].pc \in InsideCall
            /\ (op[p].kind \in KeyspaceKinds /\ op[p].pc \in InsideCall) => keyspaceMutex = p)
    /\ \A p \in Procs : <>(op[p].pc \in {"done", "failed"})

C22_Witness ==
    /\ op["p1"].kind \in KeyspaceKinds
    /\ op["p1"].pc = "lockMut"
    /\ op["p2"].kind \in KeyspaceKinds
    /\ op["p2"].pc = "unlockMut"
    /\ op["p2"].resp.err
    /\ keyspaceMutex = "p2"

KsReads == {p \in Procs : op[p].kind = "KeyspaceRead"}

\* whether the keyspace names the read was handed hold the parsed name
NameListed(o) == \E i \in 1..Len(o.found) : o.found[i] = o.parsed[2]

\* C23: a keyspace read issues no mutation call and takes no mutex; with the
\* parsed name in the listing the id stays what it was,
\* "<databaseId>/keyspace/<name>"; with a listing that does not hold the name the
\* id is cleared; when parsing or listing fails the id is left as it was and the
\* read returns an error.
C23_KeyspaceReadFrame ==
    \A p \in KsReads :
        /\ op[p].mutCalls = 0
        /\ keyspaceMutex # p
        /\ op[p].pc \in {"parse", "listKeyspaces", "done", "failed"}
        /\ op[p].pc \in {"parse", "listKeyspaces", "failed"} => op[p].id = op[p].id0
        /\ op[p].pc = "failed" => op[p].reason \in {"decode", "listing"}
        /\ (op[p].pc = "done" /\ NameListed(op[p])) =>
              /\ op[p].id = op[p].id0
              /\ op[p].id = op[p].parsed[1] \o KeyspaceSep \o op[p].parsed[2]
        /\ (op[p].pc = "done" /\ ~NameListed(op[p])) => op[p].id = <<>>

C23_Witness ==
    \E p \in KsReads :
        /\ op[p].pc = "done"
        /\ op[p].listCalls = 1
        /\ Len(op[p].found) = 2
        /\ ~NameListed(op[p])
        /\ op[p].id0 # <<>>
        /\ op[p].id = <<>>

\* C24: a CDC read whose GetCDC returned 2xx never indexes an empty listing: it
\* returns normally, with the id kept when an entry has the parsed keyspace and
\* table, and with the id cleared when none has, the empty listing included.
C24_ReadNeverIndexesEmptyListing ==
    \A p \in Procs :
        (op[p].kind = "CDCRead" /\ op[p].listCalls > 0 /\ HasPrefix2(op[p].resp)) =>
            /\ op[p].pc = "done"
            /\ op[p].id = IF Matches(op[p].cdcResult, op[p].parsed[2], op[p].parsed[3])
                          THEN op[p].id0
                          ELSE <<>>

====
